---- MODULE Spec2Model ----
(***************************************************************************)
(* A model of api/index.js: the Express gateway that authenticates a       *)
(* bearer token, keeps conversations and messages in the Supabase record   *)
(* store and relays chat prompts to the Gemini completion service.         *)
(*                                                                         *)
(* Text is a sequence of one-character strings, so that substring(),       *)
(* startsWith(), join() and the template literals are computed and not     *)
(* assumed.  An optional JSON value is <<>> when absent and <<v>> when     *)
(* present.  Every await of an external service is one atomic step of the  *)
(* request that makes it; requests interleave between their awaits.        *)
(***************************************************************************)
EXTENDS Integers, Sequences, FiniteSets, TLC

\* ------------------------------------------------------------------ bounds
\* Number of requests a behaviour handles (they may overlap).
MaxReqs == 2
\* Number of sequential successful turns behind the long conversation that
\* InitLong starts from.
PreTurns == 11

\* ------------------------------------------------------- program constants
\* prompt.substring(0, 50)
TitleLimit == 50
\* getConversationHistory = async (conversationId, limit = 20)
HistoryLimit == 20
\* authHeader.substring(7)
BearerLen == 7

Reqs == 1..MaxReqs
Users == {"u1", "u2"}
NoUser == ""
NoId == 0

Min(a, b) == IF a < b THEN a ELSE b

Rep(c, n) == [i \in 1..n |-> c]

\* ------------------------------------------------------------ text literals
BearerPrefix == <<"B","e","a","r","e","r"," ">>
Ellipsis == <<".",".",".">>
UserLabel == <<"U","s","e","r",":"," ">>
AssistantLabel == <<"A","s","s","i","s","t","a","n","t",":"," ">>
PreviousHeader == <<"P","r","e","v","i","o","u","s"," ","c","o","n","v","e","r","s","a","t","i","o","n",":","\n">>
CurrentHeader == <<"\n","\n","C","u","r","r","e","n","t"," ","m","e","s","s","a","g","e",":","\n">>
ContextFooter == <<"\n","\n","P","l","e","a","s","e"," ","r","e","s","p","o","n","d"," ","r","e","m","e","m","b","e","r","i","n","g"," ","o","u","r"," ","p","r","e","v","i","o","u","s"," ","c","o","n","v","e","r","s","a","t","i","o","n"," ","a","n","d"," ","m","a","i","n","t","a","i","n"," ","c","o","n","t","e","x","t",".">>
Newline == <<"\n">>
DefaultModel == "gemini-2.0-flash-exp"

\* ------------------------------------------------------------------ inputs
\* Bearer tokens the identity service knows, by user.
TokenOf(u) == IF u = "u1" THEN <<"1">> ELSE <<"2">>

\* Authorization headers of a request: absent, empty, another scheme, the
\* scheme in lower case, the scheme without its space, an unknown token, and
\* each user's valid token.
Headers ==
    { <<>>,
      << <<>> >>,
      << <<"B","a","s","i","c"," ","1">> >>,
      << <<"b","e","a","r","e","r"," ","1">> >>,
      << <<"B","e","a","r","e","r","1">> >>,
      << BearerPrefix \o <<"x">> >> }
    \cup { << BearerPrefix \o TokenOf(u) >> : u \in Users }

PromptShort == <<"h","i">>
PromptAtLimit == Rep("a", TitleLimit)
PromptOver == Rep("b", TitleLimit + 1)

\* req.body.prompt: absent, the empty string, and three texts around the
\* title limit.
Prompts == { <<>>, << <<>> >>, <<PromptShort>>, <<PromptAtLimit>>, <<PromptOver>> }

\* Texts the completion service answers with.
Replies == { <<"o","k">> }

Routes == {"conversations", "messages", "chat", "delete"}

\* ------------------------------------------------------------- record store
\* The Supabase tables.  ids and timestamps are assigned in increasing order;
\* cascade says whether the schema deletes a conversation's messages with it
\* (and then refuses a message whose conversation is gone).
EmptyStore(cascade) ==
    [ conversations |-> {}, messages |-> {}, nextConvId |-> 1,
      nextMsgId |-> 1, now |-> 1, cascade |-> cascade ]

\* Mutant: the lookup without .eq('user_id', userId).
SelectConversationAnyOwner(st, id, userId) ==
    { c \in st.conversations : c.id = id }

\* .from('conversations').select('*').eq('id', id).eq('user_id', userId)
SelectConversation(st, id, userId) ==
    { c \in st.conversations : c.id = id /\ c.user_id = userId }

\* The row .insert({user_id, title, created_at, updated_at}) stores.
NewConversation(st, userId, title) ==
    [ id |-> st.nextConvId, user_id |-> userId, title |-> title,
      created_at |-> st.now, updated_at |-> st.now ]

\* .from('conversations').insert({...}).select().single()
InsertConversation(st, userId, title) ==
    [ st EXCEPT
        !.conversations = @ \cup { NewConversation(st, userId, title) },
        !.nextConvId = @ + 1,
        !.now = @ + 1 ]

\* .from('conversations').update({title}).eq('id', id)
UpdateTitle(st, id, title) ==
    [ st EXCEPT
        !.conversations = { IF c.id = id THEN [c EXCEPT !.title = title] ELSE c
                            : c \in @ } ]

\* Mutant: the delete without .eq('user_id', req.user.id).
DeleteConversationAnyOwner(st, id, userId) ==
    [ st EXCEPT
        !.conversations = { c \in @ : c.id # id },
        !.messages = IF st.cascade
                     THEN { m \in @ : m.conversation_id # id }
                     ELSE @ ]

\* .from('conversations').delete().eq('id', id).eq('user_id', userId)
DeleteConversation(st, id, userId) ==
    LET gone == SelectConversation(st, id, userId)
    IN  [ st EXCEPT
            !.conversations = @ \ gone,
            !.messages = IF st.cascade
                         THEN { m \in @ : m.conversation_id \notin { c.id : c \in gone } }
                         ELSE @ ]

\* Whether the store accepts a message for this conversation id.
AcceptsMessage(st, conversationId) ==
    st.cascade => \E c \in st.conversations : c.id = conversationId

\* The row .insert({conversation_id, role, content, created_at}) stores.
NewMessage(st, conversationId, role, content) ==
    [ id |-> st.nextMsgId, conversation_id |-> conversationId, role |-> role,
      content |-> content, created_at |-> st.now ]

\* .from('messages').insert({...}).select().single()
InsertMessage(st, conversationId, role, content) ==
    [ st EXCEPT
        !.messages = @ \cup { NewMessage(st, conversationId, role, content) },
        !.nextMsgId = @ + 1,
        !.now = @ + 1 ]

RECURSIVE OrderAscending(_)
\* .order('created_at', { ascending: true })
OrderAscending(S) ==
    IF S = {} THEN <<>>
    ELSE LET m == CHOOSE x \in S : \A y \in S : x.created_at <= y.created_at
         IN  <<m>> \o OrderAscending(S \ {m})

RECURSIVE OrderDescending(_)
\* .order('updated_at', { ascending: false })
OrderDescending(S) ==
    IF S = {} THEN <<>>
    ELSE LET c == CHOOSE x \in S : \A y \in S : x.updated_at >= y.updated_at
         IN  <<c>> \o OrderDescending(S \ {c})

\* .limit(limit)
Limit(rows, limit) == SubSeq(rows, 1, Min(limit, Len(rows)))

\* ---------------------------------------------------------------- helpers
RECURSIVE OrderNewestFirst(_)
OrderNewestFirst(S) ==
    IF S = {} THEN <<>>
    ELSE LET m == CHOOSE x \in S : \A y \in S : x.created_at >= y.created_at
         IN  <<m>> \o OrderNewestFirst(S \ {m})

\* Mutant: the history ordered with { ascending: false }.
getNewestHistory(st, conversationId, limit) ==
    Limit(OrderNewestFirst({ m \in st.messages : m.conversation_id = conversationId }),
          limit)

\* getConversationHistory: the conversation's messages, oldest first, capped.
getConversationHistory(st, conversationId, limit) ==
    Limit(OrderAscending({ m \in st.messages : m.conversation_id = conversationId }),
          limit)

\* Mutant: the listing without .eq('user_id', req.user.id).
selectAllConversations(st, userId) == OrderDescending(st.conversations)

\* The rows GET /api/conversations selects.
selectConversations(st, userId) ==
    OrderDescending({ c \in st.conversations : c.user_id = userId })

\* prompt.substring(0, 50) + '...': the title getOrCreateConversation is given.
creationTitle(prompt) ==
    SubSeq(prompt, 1, Min(TitleLimit, Len(prompt))) \o Ellipsis

\* Mutant: the final title with the ellipsis whatever the length.
finalTitleAlwaysEllipsis(prompt) ==
    SubSeq(prompt, 1, Min(TitleLimit, Len(prompt))) \o Ellipsis

\* prompt.substring(0, 50) + (prompt.length > 50 ? '...' : '')
finalTitle(prompt) ==
    SubSeq(prompt, 1, Min(TitleLimit, Len(prompt)))
        \o (IF Len(prompt) > TitleLimit THEN Ellipsis ELSE <<>>)

\* authHeader.startsWith('Bearer ')
startsWith(text, prefix) ==
    /\ Len(text) >= Len(prefix)
    /\ SubSeq(text, 1, Len(prefix)) = prefix

\* authHeader.substring(7)
substringFrom(text, n) == SubSeq(text, n + 1, Len(text))

\* supabase.auth.getUser(token): the user of a token, NoUser when unknown.
getUser(token) ==
    IF \E u \in Users : TokenOf(u) = token
    THEN CHOOSE u \in Users : TokenOf(u) = token
    ELSE NoUser

\* Mutant: the header check without startsWith('Bearer ').
headerRejectedIfAbsent(header) == header = <<>> \/ header[1] = <<>>

\* !authHeader || !authHeader.startsWith('Bearer ')
headerRejected(header) ==
    \/ header = <<>>
    \/ header[1] = <<>>
    \/ ~ startsWith(header[1], BearerPrefix)

\* Mutant: prompt === undefined in place of !prompt.
promptAbsent(prompt) == prompt = <<>>

\* !prompt
promptMissing(prompt) == prompt = <<>> \/ prompt[1] = <<>>

\* Mutant: the title updated on every turn.
firstTurnAlways(history) == TRUE

\* history.length === 0
firstTurn(history) == Len(history) = 0

RECURSIVE renderHistory(_)
\* history.forEach(msg => ...): one line per user or assistant message.
renderHistory(history) ==
    IF history = <<>> THEN <<>>
    ELSE LET msg == Head(history)
             line == IF msg.role = "user" THEN << UserLabel \o msg.content >>
                     ELSE IF msg.role = "assistant"
                          THEN << AssistantLabel \o msg.content >>
                          ELSE <<>>
         IN  line \o renderHistory(Tail(history))

RECURSIVE join(_, _)
\* Array.prototype.join
join(lines, sep) ==
    IF lines = <<>> THEN <<>>
    ELSE IF Len(lines) = 1 THEN lines[1]
    ELSE lines[1] \o sep \o join(Tail(lines), sep)

\* Mutant: the lines joined without slice(0, -1).
previousLinesAll(contextMessages) == contextMessages

\* contextMessages.slice(0, -1)
previousLines(contextMessages) ==
    SubSeq(contextMessages, 1, Len(contextMessages) - 1)

\* The text handed to model.generateContent.
fullContext(history, prompt) ==
    LET contextMessages == renderHistory(history) \o << UserLabel \o prompt >>
    IN  IF Len(history) > 0
        THEN PreviousHeader \o join(previousLines(contextMessages), Newline)
                 \o CurrentHeader \o prompt \o ContextFooter
        ELSE prompt

\* ------------------------------------------------------------------- state
VARIABLES
    store,   \* the record store's tables
    req      \* each request: its inputs, its place in its handler, its response

vars == <<store, req>>

NoResponse == [ status |-> 0, text |-> "", data |-> <<>> ]

\* A request that has not arrived.  calls lists the external calls the
\* handler has awaited, each with the row it stored or found.
Blank ==
    [ pc |-> "new", route |-> "", header |-> <<>>, idp |-> "", user |-> NoUser,
      prompt |-> <<>>, conversation_id |-> NoId, conversation |-> NoId,
      history |-> <<>>, sent |-> <<>>, aiResponse |-> <<>>,
      calls |-> <<>>, res |-> NoResponse ]

Init ==
    /\ store \in { EmptyStore(cascade) : cascade \in BOOLEAN }
    /\ req = [ r \in Reqs |-> Blank ]

\* One turn of POST /api/chat run alone with every call succeeding, by the
\* store operations of the handler: on a new conversation when
\* conversationId is NoId.
SeedTurn(st, userId, conversationId, prompt, reply) ==
    LET created == IF conversationId = NoId
                   THEN InsertConversation(st, userId, creationTitle(prompt))
                   ELSE st
        id == IF conversationId = NoId THEN st.nextConvId ELSE conversationId
        history == getConversationHistory(created, id, HistoryLimit)
        saved == InsertMessage(InsertMessage(created, id, "user", prompt),
                               id, "assistant", reply)
    IN  IF firstTurn(history) THEN UpdateTitle(saved, id, finalTitle(prompt))
        ELSE saved

RECURSIVE SeedTurns(_, _, _, _)
\* n further turns on a stored conversation.
SeedTurns(st, userId, conversationId, n) ==
    IF n = 0 THEN st
    ELSE SeedTurns(SeedTurn(st, userId, conversationId, PromptShort, <<"o","k">>),
                   userId, conversationId, n - 1)

\* A store that earlier requests have filled: PreTurns turns of u1 on
\* conversation 1, one turn of u2 (conversation 2), and a conversation of u1
\* (conversation 3) that another client of the same tables has written a
\* system message to before u1's one turn on it.
SeededStore ==
    LET first == SeedTurn(EmptyStore(TRUE), "u1", NoId, PromptOver, <<"o","k">>)
        long == SeedTurns(first, "u1", 1, PreTurns - 1)
        other == SeedTurn(long, "u2", NoId, PromptAtLimit, <<"o","k">>)
        made == InsertConversation(other, "u1", creationTitle(PromptShort))
        noted == InsertMessage(made, 3, "system", <<"b","e"," ","b","r","i","e","f">>)
    IN  SeedTurn(noted, "u1", 3, PromptShort, <<"h","e","l","l","o">>)

\* The service starts on a store that earlier requests have filled.
InitSeeded ==
    /\ store = SeededStore
    /\ req = [ r \in Reqs |-> Blank ]

\* res.status(status).json(...): the handler ends.
Reply(rec, status, text, data) ==
    [ rec EXCEPT !.pc = "done",
                 !.res = [ status |-> status, text |-> text, data |-> data ] ]

\* An awaited external call, whether it succeeded, and its row if any.
Call(rec, op, ok, row) ==
    [ rec EXCEPT !.calls = Append(@, [ op |-> op, ok |-> ok, row |-> row ]) ]

\* Request r goes on as rec.
Step(r, rec) == req' = [ req EXCEPT ![r] = rec ]

\* Conversation ids a client may name: those stored, and one that is not.
KnownIds == { c.id : c \in store.conversations } \cup { store.nextConvId }

ChatError == "Failed to generate response. Please try again."

\* ----------------------------------------------------------------- actions
\* The outcome of verifyAuth for a header; idp is what the identity service
\* does with the token: answers, returns an error, or throws.
authOutcome(header, idp) ==
    IF headerRejected(header)
    THEN [ status |-> 401, user |-> NoUser,
           text |-> "Missing or invalid authorization header" ]
    ELSE IF idp = "throws"
    THEN [ status |-> 401, user |-> NoUser, text |-> "Authentication failed" ]
    ELSE IF idp = "error" \/ getUser(substringFrom(header[1], BearerLen)) = NoUser
    THEN [ status |-> 401, user |-> NoUser, text |-> "Invalid or expired token" ]
    ELSE [ status |-> 0, text |-> "",
           user |-> getUser(substringFrom(header[1], BearerLen)) ]

\* A request arrives on a protected route and passes through verifyAuth.
verifyAuth(r) ==
    /\ req[r].pc = "new"
    /\ \A q \in Reqs : q < r => req[q].pc # "new"
    /\ \E route \in Routes, header \in Headers, idp \in {"answers", "error", "throws"} :
         LET out == authOutcome(header, idp)
             got == [ req[r] EXCEPT !.route = route, !.header = header, !.idp = idp ]
         IN  Step(r, IF out.status = 401
                     THEN Reply(got, 401, out.text, <<>>)
                     ELSE [ got EXCEPT !.pc = route, !.user = out.user ])
    /\ UNCHANGED store

\* app.get('/api/conversations')
getConversations(r) ==
    /\ req[r].pc = "conversations"
    /\ \E ok \in BOOLEAN :
         Step(r, IF ok
                 THEN Reply(Call(req[r], "selectConversations", TRUE, <<>>), 200, "",
                            selectConversations(store, req[r].user))
                 ELSE Reply(Call(req[r], "selectConversations", FALSE, <<>>), 500,
                            "Failed to fetch conversations", <<>>))
    /\ UNCHANGED store

\* app.get('/api/conversations/:id/messages')
getMessages(r) ==
    /\ req[r].pc = "messages"
    /\ \E id \in KnownIds, ok \in BOOLEAN :
         LET got == [ req[r] EXCEPT !.conversation_id = id ]
         IN  Step(r, IF ok
                     THEN Reply(Call(got, "selectMessages", TRUE, <<>>), 200, "",
                                getConversationHistory(store, id, HistoryLimit))
                     ELSE Reply(Call(got, "selectMessages", FALSE, <<>>), 500,
                                "Failed to fetch messages", <<>>))
    /\ UNCHANGED store

\* app.delete('/api/conversations/:id')
deleteConversation(r) ==
    /\ req[r].pc = "delete"
    /\ \E id \in KnownIds, ok \in BOOLEAN :
         LET got == [ req[r] EXCEPT !.conversation_id = id ]
         IN  IF ok
             THEN /\ store' = DeleteConversation(store, id, req[r].user)
                  /\ Step(r, Reply(Call(got, "deleteConversation", TRUE, <<>>), 200,
                                   "Conversation deleted successfully", <<>>))
             ELSE /\ store' = store
                  /\ Step(r, Reply(Call(got, "deleteConversation", FALSE, <<>>), 500,
                                   "Failed to delete conversation", <<>>))

\* app.post('/api/chat') up to the lookup in getOrCreateConversation: the
\* body is read, a missing prompt is refused, and a conversation_id is looked
\* up for the caller.
chatResolve(r) ==
    /\ req[r].pc = "chat"
    /\ \E prompt \in Prompts, id \in {NoId} \cup KnownIds, ok \in BOOLEAN :
         LET got == [ req[r] EXCEPT !.prompt = prompt, !.conversation_id = id ]
             rows == SelectConversation(store, id, req[r].user)
         IN  Step(r, IF promptMissing(prompt)
                     THEN Reply(got, 400, "Missing required parameter: prompt", <<>>)
                     ELSE IF id = NoId
                     THEN [ got EXCEPT !.pc = "create" ]
                     ELSE IF ok /\ Cardinality(rows) = 1
                     THEN [ Call(got, "selectConversation", TRUE,
                                 << CHOOSE c \in rows : TRUE >>) EXCEPT
                              !.pc = "history",
                              !.conversation = (CHOOSE c \in rows : TRUE).id ]
                     ELSE [ Call(got, "selectConversation", FALSE, <<>>) EXCEPT
                              !.pc = "create" ])
    /\ UNCHANGED store

\* getOrCreateConversation: the insert.
chatCreate(r) ==
    /\ req[r].pc = "create"
    /\ \E ok \in BOOLEAN :
         LET title == creationTitle(req[r].prompt[1])
         IN  IF ok
             THEN /\ store' = InsertConversation(store, req[r].user, title)
                  /\ Step(r, [ Call(req[r], "insertConversation", TRUE,
                                    << NewConversation(store, req[r].user, title) >>)
                               EXCEPT !.pc = "history",
                                      !.conversation = store.nextConvId ])
             ELSE /\ store' = store
                  /\ Step(r, Reply(Call(req[r], "insertConversation", FALSE, <<>>),
                                   500, ChatError, <<>>))

\* const history = await getConversationHistory(conversation.id)
chatHistory(r) ==
    /\ req[r].pc = "history"
    /\ \E ok \in BOOLEAN :
         Step(r, IF ok
                 THEN [ Call(req[r], "selectMessages", TRUE, <<>>) EXCEPT
                          !.pc = "saveUser",
                          !.history = getConversationHistory(store, req[r].conversation,
                                                             HistoryLimit) ]
                 ELSE Reply(Call(req[r], "selectMessages", FALSE, <<>>), 500,
                            ChatError, <<>>))
    /\ UNCHANGED store

\* await saveMessage(conversation.id, 'user', prompt)
chatSaveUser(r) ==
    /\ req[r].pc = "saveUser"
    /\ \E ok \in BOOLEAN :
         IF ok /\ AcceptsMessage(store, req[r].conversation)
         THEN /\ store' = InsertMessage(store, req[r].conversation, "user",
                                        req[r].prompt[1])
              /\ Step(r, [ Call(req[r], "insertUserMessage", TRUE,
                                << NewMessage(store, req[r].conversation, "user",
                                              req[r].prompt[1]) >>)
                           EXCEPT !.pc = "complete" ])
         ELSE /\ store' = store
              /\ Step(r, Reply(Call(req[r], "insertUserMessage", FALSE, <<>>), 500,
                               ChatError, <<>>))

\* Mutant: a failed completion takes the turn's user message back.
chatCompleteRollsBack(r) ==
    /\ req[r].pc = "complete"
    /\ \E out \in {"text", "fails"}, text \in Replies :
         LET asked == [ req[r] EXCEPT
                          !.sent = << fullContext(req[r].history, req[r].prompt[1]) >> ]
             mine == req[r].calls[Len(req[r].calls)].row[1]
         IN  IF out = "text"
             THEN /\ store' = store
                  /\ Step(r, [ Call(asked, "generateContent", TRUE, <<>>) EXCEPT
                                 !.pc = "saveAssistant", !.aiResponse = text ])
             ELSE /\ store' = [ store EXCEPT !.messages = @ \ {mine} ]
                  /\ Step(r, Reply(Call(asked, "generateContent", FALSE, <<>>), 500,
                                   ChatError, <<>>))

\* The context is assembled and model.generateContent(fullContext) is awaited.
chatComplete(r) ==
    /\ req[r].pc = "complete"
    /\ \E out \in {"text", "fails", "API_KEY"}, text \in Replies :
         LET asked == [ req[r] EXCEPT
                          !.sent = << fullContext(req[r].history, req[r].prompt[1]) >> ]
         IN  Step(r, IF out = "text"
                     THEN [ Call(asked, "generateContent", TRUE, <<>>) EXCEPT
                              !.pc = "saveAssistant", !.aiResponse = text ]
                     ELSE IF out = "API_KEY"
                     THEN Reply(Call(asked, "generateContent", FALSE, <<>>), 500,
                                "Invalid or missing Gemini API key. Please check your configuration.",
                                <<>>)
                     ELSE Reply(Call(asked, "generateContent", FALSE, <<>>), 500,
                                ChatError, <<>>))
    /\ UNCHANGED store

\* res.json({content, conversation_id, model_used})
chatReply(rec) ==
    Reply(rec, 200, "", << rec.aiResponse, rec.conversation, DefaultModel >>)

\* await saveMessage(conversation.id, 'assistant', aiResponse); a turn whose
\* history was not empty then responds.
chatSaveAssistant(r) ==
    /\ req[r].pc = "saveAssistant"
    /\ \E ok \in BOOLEAN :
         IF ok /\ AcceptsMessage(store, req[r].conversation)
         THEN LET saved == Call(req[r], "insertAssistantMessage", TRUE,
                                << NewMessage(store, req[r].conversation, "assistant",
                                              req[r].aiResponse) >>)
              IN  /\ store' = InsertMessage(store, req[r].conversation, "assistant",
                                            req[r].aiResponse)
                  /\ Step(r, IF firstTurn(req[r].history)
                             THEN [ saved EXCEPT !.pc = "title" ]
                             ELSE chatReply(saved))
         ELSE /\ store' = store
              /\ Step(r, Reply(Call(req[r], "insertAssistantMessage", FALSE, <<>>),
                               500, ChatError, <<>>))

\* if (history.length === 0) await supabase...update({title}); the result's
\* error is not looked at, and the turn responds.
chatUpdateTitle(r) ==
    /\ req[r].pc = "title"
    /\ \E ok \in BOOLEAN :
         /\ store' = IF ok
                     THEN UpdateTitle(store, req[r].conversation,
                                      finalTitle(req[r].prompt[1]))
                     ELSE store
         /\ Step(r, chatReply(Call(req[r], "updateTitle", ok, <<>>)))

Next ==
    \E r \in Reqs :
        \/ verifyAuth(r)
        \/ getConversations(r)
        \/ getMessages(r)
        \/ deleteConversation(r)
        \/ chatResolve(r)
        \/ chatCreate(r)
        \/ chatHistory(r)
        \/ chatSaveUser(r)
        \/ chatComplete(r)
        \/ chatSaveAssistant(r)
        \/ chatUpdateTitle(r)

Spec == Init /\ [][Next]_vars

SpecSeeded == InitSeeded /\ [][Next]_vars

\* ------------------------------------------------------- reading the state
\* The operations a request has awaited, in order.
Ops(rec) == [ i \in 1..Len(rec.calls) |-> rec.calls[i].op ]

IsOkCall(c, op) == c.op = op /\ c.ok

\* The rows the request's successful calls of op stored or found.
OkRows(rec, op) ==
    LET hit(c) == IsOkCall(c, op)
        kept == SelectSeq(rec.calls, hit)
    IN  [ i \in 1..Len(kept) |-> kept[i].row[1] ]

Called(rec, op) == \E i \in 1..Len(rec.calls) : rec.calls[i].op = op

\* An authenticated POST /api/chat whose body holds a non-empty prompt.
ChatTurn(rec) ==
    /\ rec.route = "chat"
    /\ rec.user # NoUser
    /\ rec.prompt # <<>>
    /\ rec.prompt[1] # <<>>

Answered(rec, status) == rec.pc = "done" /\ rec.res.status = status

\* A chat turn whose conversation_id resolved to a conversation of the caller.
Found(rec) ==
    /\ ChatTurn(rec)
    /\ rec.calls # <<>>
    /\ rec.calls[1].op = "selectConversation"
    /\ rec.calls[1].ok

MessagesOf(st, id) == { m \in st.messages : m.conversation_id = id }

\* prompt[:50], plus an ellipsis only if len(prompt) > 50.
ExpectedTitle(prompt) ==
    IF Len(prompt) > TitleLimit
    THEN SubSeq(prompt, 1, TitleLimit) \o Ellipsis
    ELSE prompt

\* The turn stored exactly one user message holding the prompt and one
\* assistant message holding the reply, both in its conversation.
TwoMessages(rec) ==
    LET mine == OkRows(rec, "insertUserMessage")
        reply == OkRows(rec, "insertAssistantMessage")
    IN  /\ Len(mine) = 1
        /\ Len(reply) = 1
        /\ mine[1].conversation_id = rec.conversation
        /\ mine[1].role = "user"
        /\ mine[1].content = rec.prompt[1]
        /\ reply[1].conversation_id = rec.conversation
        /\ reply[1].role = "assistant"
        /\ reply[1].content = rec.aiResponse
        /\ mine[1].created_at < reply[1].created_at

\* The turn created exactly one conversation, owned by its caller, and used it.
OneNewConversation(rec) ==
    LET made == OkRows(rec, "insertConversation")
    IN  /\ Len(made) = 1
        /\ made[1].user_id = rec.user
        /\ made[1].id = rec.conversation

\* The conversation of the turn is stored and holds this turn's two messages
\* and no other: no other request has written to it or deleted it.
Undisturbed(rec) ==
    /\ \E c \in store.conversations : c.id = rec.conversation
    /\ MessagesOf(store, rec.conversation)
         = { OkRows(rec, "insertUserMessage")[1],
             OkRows(rec, "insertAssistantMessage")[1] }

TitleUpdated(rec) ==
    \E i \in 1..Len(rec.calls) : IsOkCall(rec.calls[i], "updateTitle")

NewTurn(rec) == ChatTurn(rec) /\ rec.conversation_id = NoId

\* ------------------------------------------------------------------ claims
\* C1 as stated, read for the turns none of whose calls failed: POST
\* /api/chat by an authenticated user with no conversation_id and a
\* non-empty prompt always creates exactly one new conversation of that user
\* and exactly two messages in it (the prompt as user, the reply as
\* assistant), and leaves the title prompt[:50] plus "..." only if the prompt
\* is longer than 50 characters.
C1_AlwaysOneConversationTwoMessages ==
    \A r \in Reqs :
        (Answered(req[r], 200) /\ NewTurn(req[r])
         /\ \A i \in 1..Len(req[r].calls) : req[r].calls[i].ok) =>
            /\ OneNewConversation(req[r])
            /\ TwoMessages(req[r])
            /\ \A c \in store.conversations :
                 c.id = req[r].conversation =>
                     c.title = ExpectedTitle(req[r].prompt[1])

\* C1 amended: such a turn that returns the success response has created
\* exactly one new conversation of the caller and exactly two messages in it
\* (the prompt as user, then the reply as assistant) and answers with the
\* reply and the new id; the stored title is prompt[:50] plus "..." only if
\* the prompt is longer than 50 characters when the title update succeeded
\* and no other request has written to or deleted the conversation.
C1_SuccessfulNewTurn ==
    \A r \in Reqs :
        (Answered(req[r], 200) /\ NewTurn(req[r])) =>
            /\ OneNewConversation(req[r])
            /\ TwoMessages(req[r])
            /\ req[r].res.data[1] = req[r].aiResponse
            /\ req[r].res.data[2] = req[r].conversation
            /\ (TitleUpdated(req[r]) /\ Undisturbed(req[r])) =>
                   \A c \in store.conversations :
                       c.id = req[r].conversation =>
                           c.title = ExpectedTitle(req[r].prompt[1])

\* C1 witness: two successful new turns, one with a prompt of exactly 50
\* characters and one with a longer prompt, each alone on its conversation.
C1_Witness ==
    \E r, q \in Reqs :
        /\ Answered(req[r], 200) /\ NewTurn(req[r])
        /\ Answered(req[q], 200) /\ NewTurn(req[q])
        /\ req[r].prompt[1] = PromptAtLimit
        /\ req[q].prompt[1] = PromptOver
        /\ TitleUpdated(req[r]) /\ Undisturbed(req[r])
        /\ TitleUpdated(req[q]) /\ Undisturbed(req[q])

\* Request r takes a step.
Steps(r) == req'[r] # req[r]

\* The stored conversation id keeps its title over the step.
TitleKept(id) ==
    \A c \in store.conversations :
        c.id = id => \E d \in store'.conversations : d.id = id /\ d.title = c.title

\* C2 as stated, read for the turns that are answered with success: POST
\* /api/chat with a conversation_id that resolves to a conversation of the
\* caller appends exactly two messages to it and does not alter its title,
\* in every reachable state of that conversation.
C2_ExistingTurnKeepsTitle ==
    /\ [](\A r \in Reqs :
            (Answered(req[r], 200) /\ Found(req[r])) => TwoMessages(req[r]))
    /\ [][\A r \in Reqs :
            (Found(req[r]) /\ Steps(r)) => TitleKept(req[r].conversation)]_vars

\* C2 amended: such a turn that returns the success response has looked the
\* conversation up, fetched its history, stored exactly two messages in it
\* (the prompt as user, then the reply as assistant), and updated the title
\* only if the history it fetched was empty; a step of the turn changes the
\* title only then, to prompt[:50] plus "..." only if the prompt is longer
\* than 50 characters.  With a non-empty fetched history the title is kept.
C2_ExistingTurn ==
    /\ [](\A r \in Reqs :
            (Answered(req[r], 200) /\ Found(req[r])) =>
                /\ req[r].conversation = req[r].conversation_id
                /\ TwoMessages(req[r])
                /\ Ops(req[r])
                     = <<"selectConversation", "selectMessages", "insertUserMessage",
                         "generateContent", "insertAssistantMessage">>
                       \o (IF req[r].history = <<>> THEN <<"updateTitle">> ELSE <<>>))
    /\ [][\A r \in Reqs :
            (Found(req[r]) /\ Steps(r) /\ ~ TitleKept(req[r].conversation)) =>
                /\ req[r].pc = "title"
                /\ req[r].history = <<>>
                /\ \A d \in store'.conversations :
                     d.id = req[r].conversation =>
                         d.title = ExpectedTitle(req[r].prompt[1])]_vars

\* C2 witness: a successful turn on an existing conversation whose fetched
\* history was not empty, while another turn on that conversation is under way.
C2_Witness ==
    \E r, q \in Reqs :
        /\ r # q
        /\ Answered(req[r], 200) /\ Found(req[r])
        /\ req[r].history # <<>>
        /\ req[q].conversation = req[r].conversation
        /\ req[q].pc \in {"saveUser", "complete", "saveAssistant", "title"}

\* The conversation the request names is stored and owned by another user.
NamesForeign(rec) ==
    \E c \in store.conversations :
        c.id = rec.conversation_id /\ c.user_id # rec.user

\* C3: POST /api/chat with a conversation_id of a conversation owned by
\* another user goes on as without conversation_id: the lookup finds nothing
\* for the caller, the request is not answered there but creates a new
\* conversation of the caller and uses it for its history and its messages,
\* and no step of it changes the other user's conversation or its messages.
C3_ForeignIdFallsBack ==
    /\ [](\A r \in Reqs :
            (ChatTurn(req[r]) /\ NamesForeign(req[r])) =>
                /\ req[r].calls # <<>>
                /\ req[r].calls[1] = [ op |-> "selectConversation", ok |-> FALSE,
                                       row |-> <<>> ]
                /\ req[r].conversation # req[r].conversation_id
                /\ Len(req[r].calls) = 1 =>
                       /\ req[r].pc = "create"
                       /\ req[r] = [ Blank EXCEPT
                                       !.pc = "create", !.route = "chat",
                                       !.header = req[r].header, !.idp = req[r].idp,
                                       !.user = req[r].user, !.prompt = req[r].prompt,
                                       !.conversation_id = req[r].conversation_id,
                                       !.calls = req[r].calls ]
                /\ Len(req[r].calls) > 1 =>
                       /\ req[r].calls[2].op = "insertConversation"
                       /\ req[r].calls[2].ok => OneNewConversation(req[r])
                /\ \A i \in 1..Len(req[r].history) :
                       req[r].history[i].conversation_id = req[r].conversation
                /\ \A i \in 1..Len(req[r].calls) :
                       req[r].calls[i].op \in {"insertUserMessage", "insertAssistantMessage"}
                       /\ req[r].calls[i].ok
                       => req[r].calls[i].row[1].conversation_id = req[r].conversation)
    /\ [][\A r \in Reqs :
            (ChatTurn(req'[r]) /\ Steps(r)) =>
                \A c \in store.conversations :
                    (c.id = req'[r].conversation_id /\ c.user_id # req'[r].user) =>
                        /\ c \in store'.conversations
                        /\ MessagesOf(store', c.id) = MessagesOf(store, c.id)]_vars

\* C3 witness: a turn that named another user's conversation has answered
\* with success, and that conversation is still stored.
C3_Witness ==
    \E r \in Reqs :
        /\ Answered(req[r], 200) /\ ChatTurn(req[r])
        /\ NamesForeign(req[r])
        /\ MessagesOf(store, req[r].conversation_id) # {}

PolicyKept(m) == m.role \in {"user", "assistant"}

\* "User: <content>" or "Assistant: <content>" per role.
PolicyLine(m) ==
    (IF m.role = "user" THEN UserLabel ELSE AssistantLabel) \o m.content

RECURSIVE JoinFrom(_, _)
\* The lines from the i-th on, each but the first of all after a newline.
JoinFrom(lines, i) ==
    IF i > Len(lines) THEN <<>>
    ELSE (IF i > 1 THEN Newline ELSE <<>>) \o PolicyLine(lines[i]) \o JoinFrom(lines, i + 1)

\* The Context Assembler's policy.
ContextPolicy(history, prompt) ==
    IF Len(history) = 0 THEN prompt
    ELSE PreviousHeader \o JoinFrom(SelectSeq(history, PolicyKept), 1)
             \o CurrentHeader \o prompt \o ContextFooter

ExampleHistory ==
    << [ role |-> "user", content |-> <<"h","i">> ],
       [ role |-> "assistant", content |-> <<"h","e","l","l","o">> ] >>

ExamplePrompt == <<"h","o","w"," ","a","r","e"," ","y","o","u">>

ExampleExpected == <<"P","r","e","v","i","o","u","s"," ","c","o","n","v","e","r","s","a","t","i","o","n",":","\n","U","s","e","r",":"," ","h","i","\n","A","s","s","i","s","t","a","n","t",":"," ","h","e","l","l","o","\n","\n","C","u","r","r","e","n","t"," ","m","e","s","s","a","g","e",":","\n","h","o","w"," ","a","r","e"," ","y","o","u","\n","\n","P","l","e","a","s","e"," ","r","e","s","p","o","n","d"," ","r","e","m","e","m","b","e","r","i","n","g"," ","o","u","r"," ","p","r","e","v","i","o","u","s"," ","c","o","n","v","e","r","s","a","t","i","o","n"," ","a","n","d"," ","m","a","i","n","t","a","i","n"," ","c","o","n","t","e","x","t",".">>

\* C4: the text a chat turn sends to the completion service is the Context
\* Assembler's policy of the history it fetched and its prompt: the prompt
\* alone for an empty history, and otherwise the header, the prior user and
\* assistant messages rendered in order (other roles dropped) and joined by
\* newlines, the current-message section holding the prompt, and the footer;
\* and the policy's example comes out character for character.
C4_ContextPolicy ==
    /\ fullContext(ExampleHistory, ExamplePrompt) = ExampleExpected
    /\ \A r \in Reqs :
         req[r].sent # <<>> =>
             req[r].sent[1] = ContextPolicy(req[r].history, req[r].prompt[1])

\* C4 witness: a turn has sent a context built from a history that holds a
\* system message between user and assistant messages.
C4_Witness ==
    \E r \in Reqs :
        /\ req[r].sent # <<>>
        /\ Len(req[r].history) >= 3
        /\ \E i \in 1..Len(req[r].history) : req[r].history[i].role = "system"
        /\ \E i \in 1..Len(req[r].history) : req[r].history[i].role = "assistant"

\* The Authorization header is missing or does not start with "Bearer ".
NoBearer(header) ==
    \/ header = <<>>
    \/ Len(header[1]) < 7
    \/ SubSeq(header[1], 1, 7) # <<"B","e","a","r","e","r"," ">>

\* The request is not authenticated: no bearer header, or a token the
\* identity service rejects (it errors, throws, or knows no such user).
Unauthenticated(rec) ==
    \/ NoBearer(rec.header)
    \/ rec.idp # "answers"
    \/ \A u \in Users : SubSeq(rec.header[1], 8, Len(rec.header[1])) # TokenOf(u)

\* C5: on every protected route a request whose Authorization header is
\* missing, does not start with "Bearer ", or carries a token the identity
\* service rejects is answered 401 without its handler running (no call, no
\* body read), and while no other request has arrived the store is as it was.
C5_UnauthenticatedGate ==
    /\ \A r \in Reqs :
         (req[r].pc # "new" /\ Unauthenticated(req[r])) =>
             /\ Answered(req[r], 401)
             /\ req[r].user = NoUser
             /\ req[r].calls = <<>>
             /\ req[r].prompt = <<>>
             /\ req[r].conversation = NoId
    /\ (\A r \in Reqs : req[r].pc = "new" \/ Unauthenticated(req[r])) =>
           store = SeededStore

\* C5 witness: every protected route has refused a request, one for a header
\* with the scheme in lower case and one for a token the service rejected.
C5_Witness ==
    \E r, q \in Reqs :
        /\ r # q
        /\ Answered(req[r], 401) /\ Answered(req[q], 401)
        /\ req[r].route = "delete" /\ req[q].route = "chat"
        /\ req[r].header = << <<"b","e","a","r","e","r"," ","1">> >>
        /\ req[q].header = << BearerPrefix \o TokenOf("u1") >>
        /\ req[q].idp = "error"

\* An authenticated POST /api/chat whose prompt is omitted or empty, once
\* its body has been read.
PromptOmitted(rec) ==
    /\ rec.route = "chat"
    /\ rec.user # NoUser
    /\ rec.pc # "chat"
    /\ (rec.prompt = <<>> \/ Len(rec.prompt[1]) = 0)

\* C6: POST /api/chat by an authenticated user with prompt omitted or empty
\* is answered 400 having called neither the record store nor the completion
\* service, and while no other request has arrived the store holds nothing.
C6_MissingPrompt ==
    /\ \A r \in Reqs :
         PromptOmitted(req[r]) =>
             /\ Answered(req[r], 400)
             /\ req[r].calls = <<>>
             /\ req[r].conversation = NoId
             /\ req[r].sent = <<>>
    /\ (\A r \in Reqs : req[r].pc = "new" \/ PromptOmitted(req[r])) =>
           /\ store.conversations = {}
           /\ store.messages = {}

\* C6 witness: one request with the prompt omitted and one with the empty
\* prompt have been answered 400.
C6_Witness ==
    \E r, q \in Reqs :
        /\ Answered(req[r], 400) /\ req[r].prompt = <<>>
        /\ Answered(req[q], 400) /\ req[q].prompt = << <<>> >>

\* The caller owns a stored conversation with this id.
Owns(user, id) ==
    \E c \in store.conversations : c.id = id /\ c.user_id = user

\* C7: DELETE /api/conversations/:id by a user who does not own a
\* conversation with that id (another user's, or none at all) leaves every
\* conversation and message as stored, and answers the success body
\* {message: "Conversation deleted successfully"} whenever the store reports
\* no error (500 when it does).
C7_DeleteByNonOwner ==
    [][\A r \in Reqs :
          (req[r].pc = "delete" /\ Steps(r)
           /\ ~ Owns(req[r].user, req'[r].conversation_id)) =>
              /\ store'.conversations = store.conversations
              /\ store'.messages = store.messages
              /\ req'[r].pc = "done"
              /\ IF req'[r].calls[1].ok
                 THEN req'[r].res = [ status |-> 200, data |-> <<>>,
                                      text |-> "Conversation deleted successfully" ]
                 ELSE req'[r].res.status = 500]_vars

\* C7 witness: a delete of another user's conversation has been answered
\* with the success body, and that conversation holds its messages.
C7_Witness ==
    \E r \in Reqs :
        /\ Answered(req[r], 200) /\ req[r].route = "delete"
        /\ NamesForeign(req[r])
        /\ MessagesOf(store, req[r].conversation_id) # {}

\* C8: GET /api/conversations answers a valid token with conversations of
\* the token's user only, most recently updated first.
C8_ListOnlyOwn ==
    \A r \in Reqs :
        (Answered(req[r], 200) /\ req[r].route = "conversations") =>
            LET rows == req[r].res.data
            IN  /\ \A i \in 1..Len(rows) : rows[i].user_id = req[r].user
                /\ \A i, j \in 1..Len(rows) :
                     i < j => rows[i].updated_at >= rows[j].updated_at

\* C8 witness: a listing of two or more conversations was answered while
\* another user's conversation was stored, after a chat turn or a delete.
C8_Witness ==
    \E r, q \in Reqs :
        /\ Answered(req[r], 200) /\ req[r].route = "conversations"
        /\ Len(req[r].res.data) >= 2
        /\ \E c \in store.conversations : c.user_id # req[r].user
        /\ req[q].pc = "done" /\ req[q].route \in {"chat", "delete"}
        /\ req[q].calls # <<>>

\* The place of a call in the turn protocol; the lookup and the insert of a
\* conversation are both its first step.
Rank(op) ==
    CASE op = "selectConversation" -> 1
      [] op = "insertConversation" -> 2
      [] op = "selectMessages" -> 3
      [] op = "insertUserMessage" -> 4
      [] op = "generateContent" -> 5
      [] op = "insertAssistantMessage" -> 6
      [] op = "updateTitle" -> 7

\* C9: a chat turn calls in the order resolve or create the conversation,
\* fetch the history, store the user message, complete, store the assistant
\* message, update the title, each step only after the one before succeeded;
\* a failed insert of the conversation, fetch, store or completion is the
\* turn's last call and is answered 500; the failing step leaves the store
\* as it is; and after a failed completion the turn has stored its user
\* message, no assistant message, and has not updated the title.
C9_TurnOrderAndAbort ==
    /\ [](\A r \in Reqs :
            req[r].route = "chat" =>
                LET calls == req[r].calls
                    n == Len(calls)
                IN  /\ \A i, j \in 1..n : i < j => Rank(calls[i].op) < Rank(calls[j].op)
                    /\ \A i \in 2..n :
                         \/ /\ calls[i - 1].ok
                            /\ Rank(calls[i].op) = Rank(calls[i - 1].op) + 1
                         \/ /\ calls[i - 1].ok
                            /\ calls[i - 1].op = "selectConversation"
                            /\ calls[i].op = "selectMessages"
                         \/ /\ ~ calls[i - 1].ok
                            /\ calls[i - 1].op = "selectConversation"
                            /\ calls[i].op = "insertConversation"
                    /\ n > 0 => Rank(calls[1].op) <= 2
                    /\ \A i \in 1..n :
                         (~ calls[i].ok /\ Rank(calls[i].op) \in 2..6) =>
                             i = n /\ Answered(req[r], 500)
                    /\ (n > 0 /\ calls[n].op = "generateContent" /\ ~ calls[n].ok) =>
                             /\ Len(OkRows(req[r], "insertUserMessage")) = 1
                             /\ OkRows(req[r], "insertUserMessage")[1].content
                                  = req[r].prompt[1]
                             /\ ~ Called(req[r], "insertAssistantMessage")
                             /\ ~ Called(req[r], "updateTitle"))
    /\ [][\A r \in Reqs :
            (req[r].route = "chat" /\ Steps(r) /\ Answered(req'[r], 500)) =>
                store' = store]_vars

\* C9 witness: a turn on a new conversation was answered 500 after its
\* completion failed, and its user message is stored without a reply.
C9_Witness ==
    \E r \in Reqs :
        /\ Answered(req[r], 500) /\ NewTurn(req[r])
        /\ Ops(req[r]) = <<"insertConversation", "selectMessages",
                           "insertUserMessage", "generateContent">>
        /\ MessagesOf(store, req[r].conversation)
             = { OkRows(req[r], "insertUserMessage")[1] }
        /\ \E c \in store.conversations :
             c.id = req[r].conversation /\ c.title = creationTitle(req[r].prompt[1])

\* h is the n oldest of the messages M, oldest first (all of M if fewer).
OldestFirst(h, M, n) ==
    /\ Len(h) = Min(n, Cardinality(M))
    /\ \A i \in 1..Len(h) : h[i] \in M
    /\ \A i, j \in 1..Len(h) : i < j => h[i].created_at < h[j].created_at
    /\ \A m \in M :
         (\A i \in 1..Len(h) : h[i] # m) =>
             \A i \in 1..Len(h) : h[i].created_at < m.created_at

\* C10: the history a chat turn fetches is its conversation's stored
\* messages in ascending created order capped at 20: of more than 20 stored
\* messages exactly the 20 oldest, so none stored after the 20th.
C10_HistoryIsOldestTwenty ==
    [][\A r \in Reqs :
          (req[r].pc = "history" /\ req'[r].pc = "saveUser") =>
              OldestFirst(req'[r].history,
                          MessagesOf(store, req[r].conversation), 20)]_vars

\* C10 witness: a turn on a conversation of more than 20 messages has sent
\* a context built from 20 of them, the latest stored reply not among them.
C10_Witness ==
    \E r \in Reqs :
        /\ req[r].pc = "saveAssistant"
        /\ Len(req[r].history) = 20
        /\ \E m \in MessagesOf(store, req[r].conversation) :
             /\ m.role = "assistant"
             /\ \A i \in 1..20 : req[r].history[i].created_at < m.created_at

====
